---- MODULE Spec2Model ----
(***************************************************************************)
(* A model of package multipartstreamer (src/examples/streamer.go).        *)
(*                                                                         *)
(* A MultipartStreamer frames small parts into bodyBuffer through a        *)
(* mime/multipart Writer, keeps a reference to one deferred payload reader *)
(* and its declared length, and hands out io.MultiReader(bodyBuffer,       *)
(* reader, closeBuffer) as the request body.                               *)
(*                                                                         *)
(* Bytes are one-character strings and byte strings are sequences of them, *)
(* so framing, escaping and lengths are computed byte for byte.            *)
(***************************************************************************)
EXTENDS Integers, Sequences, FiniteSets, TLC

VARIABLES
    boundary,       \* bodyWriter's boundary token
    lastpart,       \* bodyWriter.lastpart != nil: a part was already created
    ContentType,    \* MultipartStreamer.ContentType
    bodyBuffer,     \* unread bytes of *bodyBuffer
    closeBuffer,    \* unread bytes of *closeBuffer
    reader,         \* MultipartStreamer.reader: a reference to a payload source
    contentLength,  \* MultipartStreamer.contentLength
    rd,             \* caller-supplied io.Readers: read position and flags
    fh,             \* *os.File handles opened by WriteFile, in order of opening
    stream,         \* the io.ReadCloser most recently returned by GetReader
    req,            \* the http.Request most recently given to SetupRequest
    hist,           \* the calls made on the streamer so far, with their results
    shortReads,     \* how many Read calls were given a short buffer so far
    goroutine       \* the goroutines that call WriteReader at the same time

vars == <<boundary, lastpart, ContentType, bodyBuffer, closeBuffer, reader,
          contentLength, rd, fh, stream, req, hist, shortReads, goroutine>>

----------------------------------------------------------------------------
(* Bounds of the exploration *)

\* build-phase calls (WriteFields, WritePart, WriteReader*, WriteFile) per run
MaxCalls == 2
\* composed streams obtained (GetReader, SetupRequest) per run
MaxStreams == 2
\* len(p) of a short Read(p) on the composed stream
ShortRead == 3
\* Read calls with a short buffer per run (long reads are not bounded)
MaxShortReads == 1
\* longest name drawn for the quoting of field names and filenames
MaxNameLen == 2
\* WithBoundary options applied to the composer after New returned
MaxOptions == 1

----------------------------------------------------------------------------
(* Byte strings *)

CRLF == <<"\r", "\n">>
DQUOTE == "\""
BSLASH == "\\"

Min(a, b) == IF a < b THEN a ELSE b

Take(s, n) == SubSeq(s, 1, Min(n, Len(s)))
Drop(s, n) == SubSeq(s, Min(n, Len(s)) + 1, Len(s))

Digits == <<"0", "1", "2", "3", "4", "5", "6", "7", "8", "9">>

\* fmt.Sprintf("%v", n) of an int64
RECURSIVE Itoa(_)
Itoa(n) ==
    IF n < 0 THEN <<"-">> \o Itoa(0 - n)
    ELSE IF n < 10 THEN <<Digits[n + 1]>>
    ELSE Itoa(n \div 10) \o <<Digits[(n % 10) + 1]>>

\* a replacer that was given the double quote pair only
ReplaceQuoteOnly(c) == IF c = DQUOTE THEN <<BSLASH, DQUOTE>> ELSE <<c>>

\* strings.NewReplacer("\\", "\\\\", `"`, "\\\""): every byte is looked up
\* once, left to right, and replaced alone
quoteEscaper(c) ==
    IF c = BSLASH THEN <<BSLASH, BSLASH>>
    ELSE IF c = DQUOTE THEN <<BSLASH, DQUOTE>>
    ELSE <<c>>

RECURSIVE escapeQuotes(_)
escapeQuotes(s) ==
    IF s = <<>> THEN <<>> ELSE quoteEscaper(Head(s)) \o escapeQuotes(Tail(s))

----------------------------------------------------------------------------
(* mime/multipart.Writer over bodyBuffer, as the streamer uses it *)

HdrContentDisposition == <<"C", "o", "n", "t", "e", "n", "t", "-", "D", "i",
        "s", "p", "o", "s", "i", "t", "i", "o", "n">>
HdrContentLength == <<"C", "o", "n", "t", "e", "n", "t", "-", "L", "e", "n",
        "g", "t", "h">>
HdrContentType == <<"C", "o", "n", "t", "e", "n", "t", "-", "T", "y", "p",
        "e">>
OctetStream == <<"a", "p", "p", "l", "i", "c", "a", "t", "i", "o", "n", "/",
        "o", "c", "t", "e", "t", "-", "s", "t", "r", "e", "a", "m">>

\* the header keys in use, in sort.Strings order
SortedKeys == <<HdrContentDisposition, HdrContentLength, HdrContentType>>

\* a textproto.MIMEHeader is a function from keys to values; h.Set(k, v)
MIMESet(h, k, v) == [x \in (DOMAIN h) \cup {k} |-> IF x = k THEN v ELSE h[x]]

\* the header lines CreatePart writes: "%s: %s\r\n" for each key, sorted
RECURSIVE HeaderLines(_, _)
HeaderLines(h, keys) ==
    IF keys = <<>> THEN <<>>
    ELSE (IF Head(keys) \in DOMAIN h
          THEN Head(keys) \o <<":", " ">> \o h[Head(keys)] \o CRLF
          ELSE <<>>) \o HeaderLines(h, Tail(keys))

\* multipart.Writer.CreatePart(h): the bytes appended to the underlying buffer
CreatePart(last, b, h) ==
    (IF last THEN CRLF \o <<"-", "-">> \o b \o CRLF ELSE <<"-",
            "-">> \o b \o CRLF)
        \o HeaderLines(h, SortedKeys) \o CRLF

\* multipart.Writer.WriteField(fieldname, value)
WriteField(last, b, fieldname, value) ==
    CreatePart(last, b,
        MIMESet(<<>>, HdrContentDisposition,
            <<"f", "o", "r", "m", "-", "d", "a", "t", "a", ";", " ", "n", "a",
                    "m", "e", "=",
                    "\"">> \o escapeQuotes(fieldname) \o <<"\"">>)) \o value

\* a CreateFormFile that sets no Content-Type
CreateFormFileNoType(last, b, fieldname, filename) ==
    CreatePart(last, b,
        MIMESet(<<>>, HdrContentDisposition,
            <<"f", "o", "r", "m", "-", "d", "a", "t", "a", ";", " ", "n", "a",
                    "m", "e", "=", "\"">> \o escapeQuotes(fieldname)
                \o <<"\"", ";", " ", "f", "i", "l", "e", "n", "a", "m", "e",
                        "=", "\"">> \o escapeQuotes(filename) \o <<"\"">>))

\* multipart.Writer.CreateFormFile(fieldname, filename)
CreateFormFile(last, b, fieldname, filename) ==
    CreatePart(last, b,
        MIMESet(MIMESet(<<>>, HdrContentDisposition,
            <<"f", "o", "r", "m", "-", "d", "a", "t", "a", ";", " ", "n", "a",
                    "m", "e", "=", "\"">> \o escapeQuotes(fieldname)
                \o <<"\"", ";", " ", "f", "i", "l", "e", "n", "a", "m", "e",
                        "=", "\"">> \o escapeQuotes(filename) \o <<"\"">>),
            HdrContentType, OctetStream))

\* multipart.Writer.SetBoundary's validation: 1 to 70 bytes from a fixed set
BoundaryChars ==
    {"X", "d", "0", "1", "a", "b", "c", "e", "f", "-", "_", "'", "(", ")", "+",
     ",", ".", "/", ":", "=", "?"}
ValidBoundary(b) ==
    /\ Len(b) >= 1 /\ Len(b) <= 70
    /\ \A i \in 1..Len(b) : b[i] \in BoundaryChars \/ (b[i] = " " /\ i < Len(b))

\* WithBoundary(b) applied to a writer: SetBoundary's error is dropped
SetBoundary(cur, last, b) == IF last \/ ~ValidBoundary(b) THEN cur ELSE b

RECURSIVE ApplyOptions(_, _)
ApplyOptions(cur, opts) ==
    IF opts = <<>> THEN cur
    ELSE ApplyOptions(SetBoundary(cur, FALSE, Head(opts)), Tail(opts))

----------------------------------------------------------------------------
(* path/filepath.Base on slash-separated paths *)

RECURSIVE StripSlashes(_)
StripSlashes(p) ==
    IF Len(p) > 0 /\ p[Len(p)] = "/" THEN StripSlashes(SubSeq(p, 1, Len(p) - 1))
    ELSE p

RECURSIVE AfterLastSlash(_)
AfterLastSlash(p) ==
    IF \E i \in 1..Len(p) : p[i] = "/" THEN AfterLastSlash(Tail(p)) ELSE p

Base(p) ==
    IF p = <<>> THEN <<".">>
    ELSE IF StripSlashes(p) = <<>> THEN <<"/">>
    ELSE AfterLastSlash(StripSlashes(p))

----------------------------------------------------------------------------
(* The environment: option lists, payload sources, files, call arguments *)

\* multipart.NewWriter draws a random boundary
DefaultBoundaries == {<<"d", "0", "d", "1">>}
\* the option lists New is called with: none, WithBoundary("X"), WithBoundary("")
OptionLists == {<<>>, <<<<"X">>>>, <<<<>>>>}

\* caller-supplied io.Readers and the bytes each yields
Readers == {1, 2}
ReaderData(r) == IF r = 1 THEN <<"h", "e", "l", "l", "o">> ELSE <<"y", "o">>
\* reader 1 reports io.EOF on the call after its last byte (bytes.Reader,
\* os.File); reader 2 reports it together with its last bytes
EofWithData(r) == r = 2

\* the filesystem: one regular file
PathFile == <<"/", "d", "/", "f", "i", "l", "e">>
PathMissing == <<"/", "n", "o", "f", "i", "l", "e">>
Paths == {PathFile, PathMissing}
FileExists(p) == p = PathFile
FileData(p) == IF p = PathFile THEN <<"h", "e", "l", "l", "o">> ELSE <<>>

NilReader == <<"nil", 0>>
RdRef(r) == <<"rd", r>>
FhRef(i) == <<"fh", i>>

KeyParameters == <<"p", "a", "r", "a", "m", "e", "t", "e", "r", "s">>
KeyFile == <<"f", "i", "l", "e">>
ValueJson == <<"{", "\"", "x", "\"", ":", "1", "}">>

\* fields maps given to WriteFields, each with the orders range may visit it in
FieldMaps ==
    { (KeyParameters :> ValueJson),
      (KeyParameters :> ValueJson) @@ (<<"a">> :> <<"b">>) }

Orders(f) ==
    {o \in [1..Cardinality(DOMAIN f) -> DOMAIN f] :
        \A i, j \in DOMAIN o : i # j => o[i] # o[j]}

\* headers maps given to WritePart (map[string]string)
PartHeaders == { (HdrContentType :> <<"a", "p", "p", "l", "i", "c", "a", "t",
        "i", "o", "n", "/", "x", "x", "x", "+", "j", "s", "o", "n">>) }

\* values of a map[string]any: an int64 or a string
Int64(n) == [isInt |-> TRUE, int |-> n, str |-> <<>>]
Str(s) == [isInt |-> FALSE, int |-> 0, str |-> s]
Sprintv(v) == IF v.isInt THEN Itoa(v.int) ELSE v.str

\* WriteReader calls, as <<reader, size>>: reader 1 under its true length
\* and under a wrong one
ReaderCalls == {<<1, 5>>, <<1, 2>>}
\* WriteReaderWithSize calls, as <<reader, size>>
SizedCalls == {<<2, 2>>}

\* headers maps given to WriteReaderWithHeaders (map[string]any)
ReaderHeaders ==
    { (HdrContentLength :> Int64(5)) @@ (HdrContentType :> Str(<<"t", "e",
            "x", "t", "/", "p", "l", "a", "i", "n">>)),
      (HdrContentType :> Str(<<"t", "e", "x", "t", "/", "p", "l", "a", "i",
              "n">>)),
      (HdrContentLength :> Str(<<"5">>)) }

ReadSizes == {ShortRead, 512}

----------------------------------------------------------------------------
(* State *)

NoStream ==
    [id |-> 0, status |-> "none", idx |-> 0, src |-> NilReader, out |-> <<>>,
     hdr |-> <<>>, trl |-> <<>>, len |-> 0, closed |-> FALSE]

NoRequest == [ContentType |-> <<>>, ContentLength |-> 0, Body |-> 0]

\* SetupRequest is handed a request that carries a Content-Type already, or
\* the request it was handed last (a fresh one the first time)
PriorRequests ==
    { [ContentType |-> << <<"t", "e", "x", "t", "/", "p", "l", "a", "i",
            "n">> >>, ContentLength |-> 0, Body |-> 0] }

\* http.Header.Get: the first value of the key, or ""
HeaderGet(values) == IF values = <<>> THEN <<>> ELSE values[1]

Event(op, ret, src, size, args) ==
    [op |-> op, ret |-> ret, src |-> src, size |-> size, args |-> args]

BuildOps == {"WriteFields", "WritePart", "WriteReader", "WriteReaderWithSize",
             "WriteReaderWithHeaders", "WriteFile"}
StreamOps == {"GetReader", "SetupRequest"}

NumCalls(ops) == Cardinality({i \in DOMAIN hist : hist[i].op \in ops})

\* New(opts...)
New(opts, random) ==
    LET b == ApplyOptions(random, opts) IN
    /\ boundary = b
    /\ lastpart = FALSE
    /\ ContentType = <<"m", "u", "l", "t", "i", "p", "a", "r", "t", "/", "f",
            "o", "r", "m", "-", "d", "a", "t", "a", ";", " ", "b", "o", "u",
            "n", "d", "a", "r", "y", "=">> \o b
    /\ bodyBuffer = <<>>
    /\ closeBuffer = CRLF \o <<"-", "-">> \o b \o <<"-", "-">> \o CRLF
    /\ reader = NilReader
    /\ contentLength = 0
    /\ rd = [r \in Readers |-> [pos |-> 0, touched |-> FALSE, eof |-> FALSE]]
    /\ fh = <<>>
    /\ stream = NoStream
    /\ req = NoRequest
    /\ hist = <<>>
    /\ shortReads = 0

\* a program with one goroutine: nothing runs beside the calls it makes
NoSnap == [bb |-> <<>>, last |-> FALSE]
NoGoroutines ==
    [serialized |-> FALSE, holder |-> 0, pc |-> <<"done", "done">>,
     snap |-> <<NoSnap, NoSnap>>]

Init ==
    /\ \E opts \in OptionLists, random \in DefaultBoundaries : New(opts, random)
    /\ goroutine = NoGoroutines

----------------------------------------------------------------------------
(* Build phase *)

\* Len()
StreamerLen == contentLength + Len(bodyBuffer) + Len(closeBuffer)

\* the bytes bodyWriter.WriteField appends for each entry, in range order
RECURSIVE FieldsBytes(_, _, _, _)
FieldsBytes(last, b, fields, order) ==
    IF order = <<>> THEN <<>>
    ELSE WriteField(last, b, Head(order), fields[Head(order)])
            \o FieldsBytes(TRUE, b, fields, Tail(order))

RECURSIVE FieldsArgs(_, _)
FieldsArgs(fields, order) ==
    IF order = <<>> THEN <<>>
    ELSE <<Head(order), fields[Head(order)]>> \o FieldsArgs(fields, Tail(order))

\* WriteFields(fields), range visiting the keys in `order`
WriteFields(fields, order) ==
    /\ bodyBuffer' = bodyBuffer \o FieldsBytes(lastpart, boundary, fields, order)
    /\ lastpart' = (lastpart \/ order # <<>>)
    /\ UNCHANGED <<boundary, ContentType, closeBuffer, reader, contentLength>>

\* the MIMEHeader WritePart builds: Content-Disposition, then every h.Set(k, v)
PartHeader(fieldname, headers) ==
    LET cd == MIMESet(<<>>, HdrContentDisposition,
                  <<"f", "o", "r", "m", "-", "d", "a", "t", "a", ";", " ",
                          "n", "a", "m", "e", "=",
                          "\"">> \o escapeQuotes(fieldname) \o <<"\"">>)
    IN [k \in (DOMAIN cd) \cup (DOMAIN headers) |->
            IF k \in DOMAIN headers THEN headers[k] ELSE cd[k]]

\* WritePart(fieldname, data, headers): io.Copy drains data into the part
WritePart(fieldname, data, headers) ==
    /\ bodyBuffer' = bodyBuffer
            \o CreatePart(lastpart, boundary, PartHeader(fieldname, headers))
            \o data
    /\ lastpart' = TRUE
    /\ UNCHANGED <<boundary, ContentType, closeBuffer, reader, contentLength>>

\* a WriteReader that copies the reader into the buffer at once
WriteReaderEager(key, filename, size, src) ==
    /\ reader' = src
    /\ contentLength' = size
    /\ bodyBuffer' = bodyBuffer \o CreateFormFile(lastpart, boundary, key, filename)
            \o (IF src[1] = "rd" THEN ReaderData(src[2]) ELSE <<>>)
    /\ rd' = IF src[1] = "rd"
             THEN [rd EXCEPT ![src[2]] = [pos |-> Len(ReaderData(src[2])),
                                          touched |-> TRUE, eof |-> TRUE]]
             ELSE rd
    /\ lastpart' = TRUE
    /\ UNCHANGED <<boundary, ContentType, closeBuffer>>

\* a WriteReader that adds the size to the length already declared
WriteReaderAccumulates(key, filename, size, src) ==
    /\ reader' = src
    /\ contentLength' = contentLength + size
    /\ bodyBuffer' = bodyBuffer \o CreateFormFile(lastpart, boundary, key, filename)
    /\ lastpart' = TRUE
    /\ UNCHANGED <<boundary, ContentType, closeBuffer, rd>>

\* WriteReader(key, filename, size, reader)
WriteReader(key, filename, size, src) ==
    /\ reader' = src
    /\ contentLength' = size
    /\ bodyBuffer' = bodyBuffer \o CreateFormFile(lastpart, boundary, key, filename)
    /\ lastpart' = TRUE
    /\ UNCHANGED <<boundary, ContentType, closeBuffer, rd>>

\* headers["Content-Length"].(int64) panics on a missing key or another type
LengthAssertionPanics(headers) ==
    \/ HdrContentLength \notin DOMAIN headers
    \/ ~headers[HdrContentLength].isInt

\* the MIMEHeader WriteReaderWithHeaders builds
ReaderHeader(key, filename, headers) ==
    LET cd == MIMESet(<<>>, HdrContentDisposition,
                  <<"f", "o", "r", "m", "-", "d", "a", "t", "a", ";", " ",
                          "n", "a", "m", "e", "=", "\"">> \o escapeQuotes(key)
                      \o <<"\"", ";", " ", "f", "i", "l", "e", "n", "a", "m",
                              "e", "=",
                              "\"">> \o escapeQuotes(filename) \o <<"\"">>)
    IN [k \in (DOMAIN cd) \cup (DOMAIN headers) |->
            IF k \in DOMAIN headers THEN Sprintv(headers[k]) ELSE cd[k]]

\* a WriteReaderWithHeaders that extracts the length before it stores the reader
WriteReaderWithHeadersLengthFirst(key, filename, src, headers) ==
    /\ IF LengthAssertionPanics(headers)
       THEN UNCHANGED <<reader, contentLength, bodyBuffer, lastpart>>
       ELSE /\ reader' = src
            /\ contentLength' = headers[HdrContentLength].int
            /\ bodyBuffer' = bodyBuffer
                    \o CreatePart(lastpart, boundary,
                                  ReaderHeader(key, filename, headers))
            /\ lastpart' = TRUE
    /\ UNCHANGED <<boundary, ContentType, closeBuffer, rd>>

\* WriteReaderWithHeaders(key, filename, reader, headers)
WriteReaderWithHeaders(key, filename, src, headers) ==
    /\ reader' = src
    /\ IF LengthAssertionPanics(headers)
       THEN UNCHANGED <<contentLength, bodyBuffer, lastpart>>
       ELSE /\ contentLength' = headers[HdrContentLength].int
            /\ bodyBuffer' = bodyBuffer
                    \o CreatePart(lastpart, boundary,
                                  ReaderHeader(key, filename, headers))
            /\ lastpart' = TRUE
    /\ UNCHANGED <<boundary, ContentType, closeBuffer, rd>>

\* WriteReaderWithSize(key, filename, size, reader)
WriteReaderWithSize(key, filename, size, src) ==
    WriteReaderWithHeaders(key, filename, src,
        (HdrContentType :> Str(OctetStream)) @@ (HdrContentLength :> Int64(size)))

NewHandle(path) ==
    [path |-> path, pos |-> 0, touched |-> FALSE, eof |-> FALSE, open |-> TRUE]

\* what WriteFile returns: os.Open's error, fh.Stat's error, or WriteReader's nil
WriteFileResult(filename, statOk) ==
    IF ~FileExists(filename) THEN "open error"
    ELSE IF ~statOk THEN "stat error"
    ELSE "nil"

\* WriteFile(key, filename); statOk is whether fh.Stat() succeeds
WriteFile(key, filename, statOk) ==
    IF ~FileExists(filename)
    THEN UNCHANGED <<boundary, lastpart, ContentType, bodyBuffer, closeBuffer,
                     reader, contentLength, rd, fh>>
    ELSE /\ fh' = Append(fh, NewHandle(filename))
         /\ IF ~statOk
            THEN UNCHANGED <<boundary, lastpart, ContentType, bodyBuffer,
                             closeBuffer, reader, contentLength, rd>>
            ELSE WriteReader(key, Base(filename), Len(FileData(filename)),
                             FhRef(Len(fh) + 1))

----------------------------------------------------------------------------
(* Consumption: io.MultiReader(bodyBuffer, reader, closeBuffer) *)

\* GetReader(): io.MultiReader copies the three readers as they are now.
\* out collects the bytes the stream has yielded; hdr, trl and len record the
\* two buffers and Len() as they were when the stream was made.
GetReader ==
    stream' = [id |-> NumCalls(StreamOps) + 1, status |-> "open", idx |-> 0,
               src |-> reader, out |-> <<>>, hdr |-> bodyBuffer,
               trl |-> closeBuffer, len |-> StreamerLen, closed |-> FALSE]

\* SetupRequest(req)
SetupRequest(r) ==
    /\ GetReader
    /\ req' = [Body |-> stream'.id,
               ContentType |-> Append(r.ContentType, ContentType),
               ContentLength |-> StreamerLen]

World == [bb |-> bodyBuffer, cb |-> closeBuffer, rd |-> rd, fh |-> fh]

\* bytes.Buffer.Read(p), len(p) = k > 0
BufferRead(buf, k) ==
    IF buf = <<>> THEN [data |-> <<>>, err |-> "EOF", rest |-> <<>>]
    ELSE [data |-> Take(buf, k), err |-> "nil", rest |-> Drop(buf, k)]

\* Read(p) of a payload source holding `data`, `pos` bytes of it already read
SourceRead(data, pos, k, eofWithData) ==
    LET n == Min(k, Len(data) - pos) IN
    [data |-> SubSeq(data, pos + 1, pos + n),
     err |-> IF n = 0 \/ (eofWithData /\ pos + n = Len(data)) THEN "EOF" ELSE "nil"]

\* the readers in the order bodyBuffer, closeBuffer, reader
ReaderReadTrailerFirst(idx, src, w, k) ==
    IF idx = 0 THEN
        LET r == BufferRead(w.bb, k) IN
        [data |-> r.data, err |-> r.err, w |-> [w EXCEPT !.bb = r.rest]]
    ELSE IF idx = 1 THEN
        LET r == BufferRead(w.cb, k) IN
        [data |-> r.data, err |-> r.err, w |-> [w EXCEPT !.cb = r.rest]]
    ELSE IF src = NilReader THEN [data |-> <<>>, err |-> "EOF", w |-> w]
    ELSE IF src[1] = "rd" THEN
        LET s == w.rd[src[2]]
            r == SourceRead(ReaderData(src[2]), s.pos, k, EofWithData(src[2]))
        IN [data |-> r.data, err |-> r.err,
            w |-> [w EXCEPT !.rd[src[2]] =
                      [pos |-> s.pos + Len(r.data), touched |-> TRUE,
                       eof |-> s.eof \/ r.err = "EOF"]]]
    ELSE
        LET s == w.fh[src[2]]
            r == SourceRead(FileData(s.path), s.pos, k, FALSE)
        IN [data |-> r.data, err |-> r.err,
            w |-> [w EXCEPT !.fh[src[2]] =
                      [s EXCEPT !.pos = s.pos + Len(r.data), !.touched = TRUE,
                                !.eof = s.eof \/ r.err = "EOF"]]]

\* Read(p) of the reader at place idx of the multiReader
ReaderRead(idx, src, w, k) ==
    IF idx = 0 THEN
        LET r == BufferRead(w.bb, k) IN
        [data |-> r.data, err |-> r.err, w |-> [w EXCEPT !.bb = r.rest]]
    ELSE IF idx = 2 THEN
        LET r == BufferRead(w.cb, k) IN
        [data |-> r.data, err |-> r.err, w |-> [w EXCEPT !.cb = r.rest]]
    ELSE IF src[1] = "rd" THEN
        LET s == w.rd[src[2]]
            r == SourceRead(ReaderData(src[2]), s.pos, k, EofWithData(src[2]))
        IN [data |-> r.data, err |-> r.err,
            w |-> [w EXCEPT !.rd[src[2]] =
                      [pos |-> s.pos + Len(r.data), touched |-> TRUE,
                       eof |-> s.eof \/ r.err = "EOF"]]]
    ELSE
        LET s == w.fh[src[2]]
            r == SourceRead(FileData(s.path), s.pos, k, FALSE)
        IN [data |-> r.data, err |-> r.err,
            w |-> [w EXCEPT !.fh[src[2]] =
                      [s EXCEPT !.pos = s.pos + Len(r.data), !.touched = TRUE,
                                !.eof = s.eof \/ r.err = "EOF"]]]

RECURSIVE MultiRead(_, _, _, _)

\* a loop that drops the bytes a reader returns together with io.EOF
MultiReadLosesFinalBytes(idx, src, w, k) ==
    IF idx >= 3 THEN [idx |-> 3, data |-> <<>>, err |-> "EOF", w |-> w]
    ELSE IF idx = 1 /\ src = NilReader
    THEN [idx |-> 1, data |-> <<>>, err |-> "panic", w |-> w]
    ELSE LET r == ReaderRead(idx, src, w, k)
         IN IF r.err = "EOF" THEN MultiRead(idx + 1, src, r.w, k)
            ELSE [idx |-> idx, data |-> r.data, err |-> r.err, w |-> r.w]

\* multiReader.Read(p): the loop over the remaining readers. A nil io.Reader
\* in the second place makes the call panic (nil pointer dereference).
MultiRead(idx, src, w, k) ==
    IF idx >= 3 THEN [idx |-> 3, data |-> <<>>, err |-> "EOF", w |-> w]
    ELSE IF idx = 1 /\ src = NilReader
    THEN [idx |-> 1, data |-> <<>>, err |-> "panic", w |-> w]
    ELSE LET r == ReaderRead(idx, src, w, k)
             next == IF r.err = "EOF" THEN idx + 1 ELSE idx
         IN IF Len(r.data) > 0 \/ r.err # "EOF"
            THEN [idx |-> next, data |-> r.data,
                  err |-> IF r.err = "EOF" /\ next < 3 THEN "nil" ELSE r.err,
                  w |-> r.w]
            ELSE MultiRead(next, src, r.w, k)

\* Read(p) on the stream GetReader returned, len(p) = k
Read(k) ==
    LET r == MultiRead(stream.idx, stream.src, World, k) IN
    /\ bodyBuffer' = r.w.bb
    /\ closeBuffer' = r.w.cb
    /\ rd' = r.w.rd
    /\ fh' = r.w.fh
    /\ stream' = [stream EXCEPT !.idx = r.idx, !.out = @ \o r.data,
                                !.status = IF r.err = "nil" THEN "open"
                                           ELSE IF r.err = "EOF" THEN "eof"
                                           ELSE "panic"]

\* Close() on the stream GetReader returned: ioutil.NopCloser closes nothing
Close ==
    /\ stream' = [stream EXCEPT !.closed = TRUE]
    /\ UNCHANGED fh

----------------------------------------------------------------------------
(* The calls a program makes *)

\* the build phase ends when the program asks for the stream
CanBuild == NumCalls(BuildOps) < MaxCalls /\ stream.status = "none"
\* a program asks for a new stream when it holds none that is still live
CanStream ==
    /\ NumCalls(StreamOps) < MaxStreams
    /\ stream.status \in {"none", "eof", "panic"}

CallWriteFields ==
    \E fields \in FieldMaps : \E order \in Orders(fields) :
        /\ CanBuild
        /\ WriteFields(fields, order)
        /\ hist' = Append(hist, Event("WriteFields", "nil", NilReader, 0,
                                      FieldsArgs(fields, order)))
        /\ UNCHANGED <<rd, fh, stream, req, shortReads, goroutine>>

CallWritePart ==
    \E headers \in PartHeaders :
        /\ CanBuild
        /\ WritePart(KeyParameters, ValueJson, headers)
        /\ hist' = Append(hist, Event("WritePart", "nil", NilReader, 0,
                                      <<KeyParameters, ValueJson>>))
        /\ UNCHANGED <<rd, fh, stream, req, shortReads, goroutine>>

CallWriteReader ==
    \E c \in ReaderCalls :
        /\ CanBuild
        /\ WriteReader(KeyFile, KeyFile, c[2], RdRef(c[1]))
        /\ hist' = Append(hist, Event("WriteReader", "nil", RdRef(c[1]), c[2],
                                      <<KeyFile, KeyFile>>))
        /\ UNCHANGED <<fh, stream, req, shortReads, goroutine>>

CallWriteReaderWithSize ==
    \E c \in SizedCalls :
        /\ CanBuild
        /\ WriteReaderWithSize(KeyFile, KeyFile, c[2], RdRef(c[1]))
        /\ hist' = Append(hist, Event("WriteReaderWithSize", "nil", RdRef(c[1]),
                                      c[2], <<KeyFile, KeyFile>>))
        /\ UNCHANGED <<fh, stream, req, shortReads, goroutine>>

CallWriteReaderWithHeaders ==
    \E headers \in ReaderHeaders :
        /\ CanBuild
        /\ WriteReaderWithHeaders(KeyFile, KeyFile, RdRef(1), headers)
        /\ hist' = Append(hist,
                Event("WriteReaderWithHeaders",
                      IF LengthAssertionPanics(headers) THEN "panic" ELSE "nil",
                      RdRef(1),
                      IF LengthAssertionPanics(headers) THEN 0
                      ELSE headers[HdrContentLength].int,
                      <<KeyFile, KeyFile, headers>>))
        /\ UNCHANGED <<fh, stream, req, shortReads, goroutine>>

CallWriteFile ==
    \E filename \in Paths, statOk \in BOOLEAN :
        /\ CanBuild
        /\ WriteFile(KeyFile, filename, statOk)
        /\ hist' = Append(hist,
                Event("WriteFile", WriteFileResult(filename, statOk),
                      IF FileExists(filename) THEN FhRef(Len(fh) + 1)
                      ELSE NilReader,
                      Len(FileData(filename)), <<KeyFile, filename>>))
        /\ UNCHANGED <<stream, req, shortReads, goroutine>>

CallGetReader ==
    /\ CanStream
    /\ GetReader
    /\ hist' = Append(hist, Event("GetReader", "nil", NilReader, 0, <<>>))
    /\ UNCHANGED <<boundary, lastpart, ContentType, bodyBuffer, closeBuffer,
                   reader, contentLength, rd, fh, req, shortReads, goroutine>>

CallSetupRequest ==
    \E r \in PriorRequests \cup {req} :
        /\ CanStream
        /\ SetupRequest(r)
        /\ hist' = Append(hist, Event("SetupRequest", "nil", NilReader, 0,
                                      r.ContentType))
        /\ UNCHANGED <<boundary, lastpart, ContentType, bodyBuffer, closeBuffer,
                       reader, contentLength, rd, fh, shortReads, goroutine>>

CallRead ==
    \E k \in ReadSizes :
        /\ stream.status \in {"open", "eof", "panic"}
        /\ ~stream.closed
        /\ k = ShortRead => shortReads < MaxShortReads
        /\ shortReads' = IF k = ShortRead THEN shortReads + 1 ELSE shortReads
        /\ Read(k)
        /\ UNCHANGED <<boundary, lastpart, ContentType, reader, contentLength,
                       req, hist, goroutine>>

CallClose ==
    /\ stream.status # "none"
    /\ ~stream.closed
    /\ Close
    /\ UNCHANGED <<boundary, lastpart, ContentType, bodyBuffer, closeBuffer,
                   reader, contentLength, rd, req, hist, shortReads, goroutine>>

Next ==
    \/ CallWriteFields
    \/ CallWritePart
    \/ CallWriteReader
    \/ CallWriteReaderWithSize
    \/ CallWriteReaderWithHeaders
    \/ CallWriteFile
    \/ CallGetReader
    \/ CallSetupRequest
    \/ CallRead
    \/ CallClose

Spec == Init /\ [][Next]_vars

----------------------------------------------------------------------------
(* A program that makes one WritePart or WriteReaderWithHeaders call with a
   name drawn from every short string over a letter, the double quote and the
   backslash, then reads the stream *)

NameAlphabet == {"a", DQUOTE, BSLASH}
Names == UNION {[1..n -> NameAlphabet] : n \in 0..MaxNameLen}

CanBuildNamed == NumCalls(BuildOps) = 0 /\ stream.status = "none"

CallWritePartNamed ==
    \E fieldname \in Names :
        /\ CanBuildNamed
        /\ WritePart(fieldname, ValueJson, <<>>)
        /\ hist' = Append(hist, Event("WritePart", "nil", NilReader, 0,
                                      <<fieldname, ValueJson>>))
        /\ UNCHANGED <<rd, fh, stream, req, shortReads, goroutine>>

CallWriteReaderWithHeadersNamed ==
    \E key \in Names, filename \in Names :
        /\ CanBuildNamed
        /\ WriteReaderWithHeaders(key, filename, RdRef(1),
                                  (HdrContentLength :> Int64(5)))
        /\ hist' = Append(hist, Event("WriteReaderWithHeaders", "nil",
                                      RdRef(1), 5, <<key, filename>>))
        /\ UNCHANGED <<fh, stream, req, shortReads, goroutine>>

NextNames ==
    \/ CallWritePartNamed
    \/ CallWriteReaderWithHeadersNamed
    \/ CallGetReader
    \/ CallRead
    \/ CallClose

SpecNames == Init /\ [][NextNames]_vars

----------------------------------------------------------------------------
(* A program that also applies WithBoundary option values to the composer
   New returned: MSOption and WithBoundary are exported, and an option is a
   func(ms *MultipartStreamer) that can be called at any time *)

\* the boundaries of the late options: a valid one and one SetBoundary rejects
LateBoundaries == {<<"a", "b">>, <<>>}

\* WithBoundary(b)(m)
ApplyOption(b) ==
    /\ boundary' = SetBoundary(boundary, lastpart, b)
    /\ UNCHANGED <<lastpart, ContentType, bodyBuffer, closeBuffer, reader,
                   contentLength>>

CallApplyOption ==
    \E b \in LateBoundaries :
        /\ NumCalls({"WithBoundary"}) < MaxOptions
        /\ ApplyOption(b)
        /\ hist' = Append(hist, Event("WithBoundary", "nil", NilReader, 0, <<b>>))
        /\ UNCHANGED <<rd, fh, stream, req, shortReads, goroutine>>

NextOptions ==
    \/ CallApplyOption
    \/ CallWriteFields
    \/ CallWritePart
    \/ CallWriteReader
    \/ CallGetReader
    \/ CallRead
    \/ CallClose

SpecOptions == Init /\ [][NextOptions]_vars

----------------------------------------------------------------------------
(* A program that goes on making build calls after it has asked for the
   stream: no method checks that GetReader has been called *)

CanBuildLate == NumCalls(BuildOps) < MaxCalls /\ stream.status # "none"

CallWriteFieldsLate ==
    \E fields \in FieldMaps : \E order \in Orders(fields) :
        /\ CanBuildLate
        /\ WriteFields(fields, order)
        /\ hist' = Append(hist, Event("WriteFields", "nil", NilReader, 0,
                                      FieldsArgs(fields, order)))
        /\ UNCHANGED <<rd, fh, stream, req, shortReads, goroutine>>

CallWritePartLate ==
    \E headers \in PartHeaders :
        /\ CanBuildLate
        /\ WritePart(KeyParameters, ValueJson, headers)
        /\ hist' = Append(hist, Event("WritePart", "nil", NilReader, 0,
                                      <<KeyParameters, ValueJson>>))
        /\ UNCHANGED <<rd, fh, stream, req, shortReads, goroutine>>

CallWriteReaderLate ==
    \E c \in ReaderCalls :
        /\ CanBuildLate
        /\ WriteReader(KeyFile, KeyFile, c[2], RdRef(c[1]))
        /\ hist' = Append(hist, Event("WriteReader", "nil", RdRef(c[1]), c[2],
                                      <<KeyFile, KeyFile>>))
        /\ UNCHANGED <<fh, stream, req, shortReads, goroutine>>

NextLate ==
    \/ CallWriteFields
    \/ CallWriteReader
    \/ CallWriteReaderWithSize
    \/ CallGetReader
    \/ CallWriteFieldsLate
    \/ CallWritePartLate
    \/ CallWriteReaderLate
    \/ CallRead
    \/ CallClose

SpecLate == Init /\ [][NextLate]_vars

----------------------------------------------------------------------------
(* Two goroutines that each call WriteReader on the same composer, with or
   without a sync.Mutex of the program around the call. The statements of
   WriteReader are the steps; the writes to m.reader, m.contentLength and the
   buffer are unsynchronized, so the steps of the two calls interleave. *)

Goroutines == {1, 2}
\* goroutine g calls WriteReader("file", "file", size, reader)
GoReader(g) == RdRef(g)
GoSize(g) == Len(ReaderData(g))

GoStart(serialized) ==
    [serialized |-> serialized, holder |-> 0, pc |-> <<"call", "call">>,
     snap |-> <<NoSnap, NoSnap>>]

InitRace ==
    /\ \E opts \in OptionLists, random \in DefaultBoundaries : New(opts, random)
    /\ \E serialized \in BOOLEAN : goroutine = GoStart(serialized)

GoAt(g, pc) == goroutine.pc[g] = pc
GoTo(g, pc) == [goroutine EXCEPT !.pc[g] = pc]

\* mu.Lock() where the program serializes the calls; then the call starts
GoCall(g) ==
    /\ GoAt(g, "call")
    /\ goroutine.serialized => goroutine.holder = 0
    /\ goroutine' = [GoTo(g, "reader") EXCEPT
                        !.holder = IF goroutine.serialized THEN g ELSE 0]
    /\ UNCHANGED <<boundary, lastpart, ContentType, bodyBuffer, closeBuffer,
                   reader, contentLength, rd, fh, stream, req, hist, shortReads>>

\* m.reader = reader
GoStoreReader(g) ==
    /\ GoAt(g, "reader")
    /\ reader' = GoReader(g)
    /\ goroutine' = GoTo(g, "length")
    /\ UNCHANGED <<boundary, lastpart, ContentType, bodyBuffer, closeBuffer,
                   contentLength, rd, fh, stream, req, hist, shortReads>>

\* a store that adds the size to the length already declared
StoreLengthAccumulates(g) == contentLength' = contentLength + GoSize(g)

\* m.contentLength = size
StoreLength(g) == contentLength' = GoSize(g)

GoStoreLength(g) ==
    /\ GoAt(g, "length")
    /\ StoreLength(g)
    /\ goroutine' = GoTo(g, "frame")
    /\ UNCHANGED <<boundary, lastpart, ContentType, bodyBuffer, closeBuffer,
                   reader, rd, fh, stream, req, hist, shortReads>>

\* m.bodyWriter.CreateFormFile, first half: the writer reads lastpart and
\* the buffer's length
GoFrame(g) ==
    /\ GoAt(g, "frame")
    /\ goroutine' = [GoTo(g, "write") EXCEPT
                        !.snap[g] = [bb |-> bodyBuffer, last |-> lastpart]]
    /\ UNCHANGED <<boundary, lastpart, ContentType, bodyBuffer, closeBuffer,
                   reader, contentLength, rd, fh, stream, req, hist, shortReads>>

\* m.bodyWriter.CreateFormFile, second half: the part's framing is copied in
\* at the place read before, over what the other call wrote there meanwhile
\* (an outcome of the unsynchronized Write, beside the two serial ones)
GoWrite(g) ==
    /\ GoAt(g, "write")
    /\ bodyBuffer' = goroutine.snap[g].bb
            \o CreateFormFile(goroutine.snap[g].last, boundary, KeyFile, KeyFile)
    /\ lastpart' = TRUE
    /\ goroutine' = GoTo(g, "return")
    /\ UNCHANGED <<boundary, ContentType, closeBuffer, reader, contentLength,
                   rd, fh, stream, req, hist, shortReads>>

\* the call returns; mu.Unlock() where the program serializes the calls
GoReturn(g) ==
    /\ GoAt(g, "return")
    /\ goroutine' = [GoTo(g, "done") EXCEPT !.holder = 0]
    /\ hist' = Append(hist, Event("WriteReader", "nil", GoReader(g), GoSize(g),
                                  <<KeyFile, KeyFile>>))
    /\ UNCHANGED <<boundary, lastpart, ContentType, bodyBuffer, closeBuffer,
                   reader, contentLength, rd, fh, stream, req, shortReads>>

\* both goroutines were waited for
Joined == \A g \in Goroutines : GoAt(g, "done")

CallGetReaderJoined == Joined /\ CallGetReader

NextRace ==
    \/ \E g \in Goroutines : GoCall(g)
    \/ \E g \in Goroutines : GoStoreReader(g)
    \/ \E g \in Goroutines : GoStoreLength(g)
    \/ \E g \in Goroutines : GoFrame(g)
    \/ \E g \in Goroutines : GoWrite(g)
    \/ \E g \in Goroutines : GoReturn(g)
    \/ CallGetReaderJoined
    \/ CallRead
    \/ CallClose

SpecRace == InitRace /\ [][NextRace]_vars

----------------------------------------------------------------------------
(* Vocabulary of the properties *)

RegOps == {"WriteReader", "WriteReaderWithSize", "WriteReaderWithHeaders",
           "WriteFile"}

\* the bytes a payload source yields, and its read state
SrcData(ref) ==
    IF ref[1] = "rd" THEN ReaderData(ref[2]) ELSE FileData(fh[ref[2]].path)
SrcState(ref) == IF ref[1] = "rd" THEN rd[ref[2]] ELSE fh[ref[2]]

\* the calls that stored a payload source, and those of them that returned nil
Overwrites ==
    SelectSeq(hist, LAMBDA e : e.op \in RegOps /\ e.ret \in {"nil", "panic"})
Registrations == SelectSeq(hist, LAMBDA e : e.op \in RegOps /\ e.ret = "nil")

\* every payload was stored by a call that returned, with its true length
CleanRegistrations ==
    /\ Overwrites = Registrations
    /\ \A i \in DOMAIN Registrations :
            Registrations[i].size = Len(SrcData(Registrations[i].src))

FirstStream == stream.id = 1
Drained == stream.status = "eof"
DrainEnded == stream.status \in {"eof", "panic"}

\* a payload source was read in this step
SourceWasRead ==
    \/ \E r \in Readers : rd'[r] # rd[r]
    \/ \E i \in DOMAIN fh : fh'[i] # fh[i]

----------------------------------------------------------------------------
(* C1 *)

\* C1: when a payload was registered whose source yields exactly its declared
\* N bytes, the fully drained reader of GetReader has yielded the header
\* buffer's bytes in write order, then the N bytes of the source, each once,
\* then the trailer buffer's bytes, and nothing else.
C1_DrainIsHeaderPayloadTrailer ==
    (/\ FirstStream /\ Drained
     /\ stream.src # NilReader
     /\ contentLength = Len(SrcData(stream.src)))
    => /\ stream.out = stream.hdr \o SrcData(stream.src) \o stream.trl
       /\ SrcState(stream.src).pos = contentLength
       /\ stream.trl = CRLF \o <<"-", "-">> \o boundary \o <<"-",
               "-">> \o CRLF

C1_Witness ==
    /\ FirstStream /\ Drained
    /\ stream.src # NilReader
    /\ contentLength = Len(SrcData(stream.src))
    /\ Len(stream.hdr) > 0
    /\ shortReads > 0

----------------------------------------------------------------------------
(* C2 *)

\* C2: after WriteFields/WritePart calls and zero or one payload registration
\* (of a source that yields its declared length), draining the reader ends
\* normally and the number of bytes it yielded is what Len() returned.
C2_LenIsBytesDrained ==
    (/\ FirstStream /\ DrainEnded
     /\ Len(Overwrites) <= 1
     /\ CleanRegistrations)
    => /\ Drained
       /\ Len(stream.out) = stream.len

----------------------------------------------------------------------------
(* C3 *)

\* C3: no build-phase or accounting call reads the payload source: a source
\* is read only in a step that is a Read on the composed stream (no call is
\* added to the history, the stream is the same one and it was open).
C3_OnlyStreamReadTouchesSource ==
    [][SourceWasRead =>
        /\ hist' = hist
        /\ stream.status = "open"
        /\ stream'.id = stream.id
        /\ Len(fh') = Len(fh)]_vars

\* after build calls and GetReader, before any Read: a registered source is
\* still untouched
C3_Witness ==
    /\ Len(Registrations) > 0
    /\ stream.status = "open" /\ stream.idx = 0 /\ stream.out = <<>>
    /\ stream.src # NilReader
    /\ ~SrcState(stream.src).touched

----------------------------------------------------------------------------
(* C4 *)

\* C4: during the drain the payload source is read only once the header
\* buffer has been emptied, and trailer bytes are produced only once the
\* payload source has reported end-of-data.
C4_SegmentsInOrder ==
    [][/\ SourceWasRead => bodyBuffer = <<>>
       /\ closeBuffer' # closeBuffer =>
            /\ bodyBuffer = <<>>
            /\ stream.src # NilReader
            /\ SrcState(stream.src)'.eof]_vars

\* a drain that stopped in the middle of the payload after a short read
C4_Witness ==
    /\ FirstStream
    /\ stream.status = "open"
    /\ stream.idx = 1
    /\ stream.src # NilReader
    /\ SrcState(stream.src).pos > 0
    /\ SrcState(stream.src).pos < Len(SrcData(stream.src))
    /\ Len(stream.hdr) > 0
    /\ closeBuffer = stream.trl

----------------------------------------------------------------------------
(* C5 *)

\* C5: on a composer that only saw WriteFields and WritePart, Len() is the
\* header length plus the trailer length, and draining the reader ends
\* normally having yielded the header bytes followed by the trailer bytes.
C5_NoPayloadDrain ==
    (/\ FirstStream
     /\ \A i \in DOMAIN hist : hist[i].op \notin RegOps)
    => /\ stream.len = Len(stream.hdr) + Len(stream.trl)
       /\ stream.status # "panic"
       /\ Drained => stream.out = stream.hdr \o stream.trl

----------------------------------------------------------------------------
(* C6 *)

\* C6: once Close was called on the reader of GetReader, drained or not, the
\* file handle WriteFile opened for the payload is closed.
C6_CloseReleasesFile ==
    (stream.closed /\ stream.src[1] = "fh") => ~fh[stream.src[2]].open

----------------------------------------------------------------------------
(* C7 *)

\* C7: right after SetupRequest(req), whatever req held before, req.Body is
\* the composed stream, its Content-Type header is the composer's ContentType
\* and req.ContentLength is Len().
C7_RequestIsBound ==
    (hist # <<>> /\ hist[Len(hist)].op = "SetupRequest"
        /\ stream.idx = 0 /\ stream.out = <<>>)
    => /\ req.Body = stream.id
       /\ HeaderGet(req.ContentType) = ContentType
       /\ req.ContentLength = StreamerLen

----------------------------------------------------------------------------
(* C8 *)

\* how many times pat occurs in s
Count(pat, s) ==
    Cardinality({i \in 1..(Len(s) - Len(pat) + 1) :
                    SubSeq(s, i, i + Len(pat) - 1) = pat})

\* C8: after two payload registrations (of two sources) the drained stream
\* holds the second source's bytes only, the first source was never read, and
\* Len() counted the second declared length, the header buffer (with both
\* part framings) and the trailer.
C8_LastRegistrationWins ==
    (/\ FirstStream /\ Drained
     /\ Len(Overwrites) = 2 /\ Len(Registrations) = 2
     /\ Registrations[1].src # Registrations[2].src)
    => /\ stream.out = stream.hdr \o SrcData(Registrations[2].src) \o stream.trl
       /\ ~SrcState(Registrations[1].src).touched
       /\ SrcState(Registrations[1].src).pos = 0
       /\ stream.len = Len(stream.hdr) + Registrations[2].size + Len(stream.trl)
       /\ Count(<<";", " ", "f", "i", "l", "e", "n", "a", "m", "e", "=",
               "\"">>, stream.hdr) = 2

C8_Witness ==
    /\ FirstStream /\ Drained
    /\ Len(Overwrites) = 2 /\ Len(Registrations) = 2
    /\ Registrations[1].src # Registrations[2].src
    /\ Len(SrcData(Registrations[1].src)) # Len(SrcData(Registrations[2].src))

----------------------------------------------------------------------------
(* C9 *)

\* New(WithBoundary("X")); WriteFields({"parameters": `{"x":1}`});
\* WriteReader("file", "file", 5, <a reader of "hello">); GetReader; drained
C9_Scenario ==
    /\ boundary = <<"X">>
    /\ Len(hist) = 3
    /\ hist[1] = Event("WriteFields", "nil", NilReader, 0,
                       <<KeyParameters, ValueJson>>)
    /\ hist[2] = Event("WriteReader", "nil", RdRef(1), 5, <<KeyFile, KeyFile>>)
    /\ hist[3].op = "GetReader"
    /\ Drained

\* --X CRLF Content-Disposition: form-data; name="parameters" CRLF CRLF
\* {"x":1} CRLF --X CRLF
\* Content-Disposition: form-data; name="file"; filename="file" CRLF CRLF
\* hello CRLF --X-- CRLF
C9_BodyAsClaimed ==
    <<"-", "-", "X", "\r", "\n", "C", "o", "n", "t", "e", "n", "t", "-", "D",
            "i", "s", "p", "o", "s", "i", "t", "i", "o", "n", ":", " ", "f",
            "o", "r", "m", "-", "d", "a", "t", "a", ";", " ", "n", "a", "m",
            "e", "=", "\"", "p", "a", "r", "a", "m", "e", "t", "e", "r", "s",
            "\"", "\r", "\n", "\r", "\n", "{", "\"", "x", "\"", ":", "1", "}",
            "\r", "\n", "-", "-", "X", "\r", "\n", "C", "o", "n", "t", "e",
            "n", "t", "-", "D", "i", "s", "p", "o", "s", "i", "t", "i", "o",
            "n", ":", " ", "f", "o", "r", "m", "-", "d", "a", "t", "a", ";",
            " ", "n", "a", "m", "e", "=", "\"", "f", "i", "l", "e", "\"", ";",
            " ", "f", "i", "l", "e", "n", "a", "m", "e", "=", "\"", "f", "i",
            "l", "e", "\"", "\r", "\n", "\r", "\n", "h", "e", "l", "l", "o",
            "\r", "\n", "-", "-", "X", "-", "-", "\r", "\n">>

\* the same with the line Content-Type: application/octet-stream CRLF after
\* the deferred part's Content-Disposition line
C9_BodyOfCode ==
    <<"-", "-", "X", "\r", "\n", "C", "o", "n", "t", "e", "n", "t", "-", "D",
            "i", "s", "p", "o", "s", "i", "t", "i", "o", "n", ":", " ", "f",
            "o", "r", "m", "-", "d", "a", "t", "a", ";", " ", "n", "a", "m",
            "e", "=", "\"", "p", "a", "r", "a", "m", "e", "t", "e", "r", "s",
            "\"", "\r", "\n", "\r", "\n", "{", "\"", "x", "\"", ":", "1", "}",
            "\r", "\n", "-", "-", "X", "\r", "\n", "C", "o", "n", "t", "e",
            "n", "t", "-", "D", "i", "s", "p", "o", "s", "i", "t", "i", "o",
            "n", ":", " ", "f", "o", "r", "m", "-", "d", "a", "t", "a", ";",
            " ", "n", "a", "m", "e", "=", "\"", "f", "i", "l", "e", "\"", ";",
            " ", "f", "i", "l", "e", "n", "a", "m", "e", "=", "\"", "f", "i",
            "l", "e", "\"", "\r", "\n", "C", "o", "n", "t", "e", "n", "t",
            "-", "T", "y", "p", "e", ":", " ", "a", "p", "p", "l", "i", "c",
            "a", "t", "i", "o", "n", "/", "o", "c", "t", "e", "t", "-", "s",
            "t", "r", "e", "a", "m", "\r", "\n", "\r", "\n", "h", "e", "l",
            "l", "o", "\r", "\n", "-", "-", "X", "-", "-", "\r", "\n">>

\* C9 as claimed: in the scenario the drained stream is the body whose
\* deferred part has the Content-Disposition line alone, and Len() is its length.
C9_ScenarioAsClaimed ==
    C9_Scenario => /\ stream.out = C9_BodyAsClaimed
                   /\ stream.len = Len(C9_BodyAsClaimed)

\* C9 as amended: in the scenario (payload registered with WriteReader) the
\* drained stream is the body whose deferred part has the Content-Disposition
\* line followed by "Content-Type: application/octet-stream", and Len() is
\* the byte length of that body.
C9_ScenarioOfCode ==
    C9_Scenario => /\ stream.out = C9_BodyOfCode
                   /\ stream.len = Len(C9_BodyOfCode)

C9_Witness == C9_Scenario /\ ReaderData(1) = <<"h", "e", "l", "l",
        "o">> /\ rd[1].pos = 5

----------------------------------------------------------------------------
(* C10 *)

\* a standard reader of a quoted-string: from s[i], the byte after the
\* opening quote, a backslash makes the next byte literal and an unescaped
\* double quote ends the value; end is the place of that closing quote
RECURSIVE Unquote(_, _, _)
Unquote(s, i, acc) ==
    IF i > Len(s) THEN [ok |-> FALSE, value |-> acc, end |-> i]
    ELSE IF s[i] = DQUOTE THEN [ok |-> TRUE, value |-> acc, end |-> i]
    ELSE IF s[i] = BSLASH /\ i < Len(s)
        THEN Unquote(s, i + 2, Append(acc, s[i + 1]))
    ELSE IF s[i] = BSLASH THEN [ok |-> FALSE, value |-> acc, end |-> i]
    ELSE Unquote(s, i + 1, Append(acc, s[i]))

\* the claimed escaping of a name: byte i of the name lands after the bytes
\* before it and one backslash for each quote or backslash up to it
Specials(s, i) ==
    Cardinality({j \in 1..i : s[j] \in {DQUOTE, BSLASH}})
C10_Escaped(s) ==
    [p \in 1..(Len(s) + Specials(s, Len(s))) |->
        IF \E i \in 1..Len(s) : p = i + Specials(s, i)
        THEN s[CHOOSE i \in 1..Len(s) : p = i + Specials(s, i)]
        ELSE BSLASH]

StartsWith(s, i, pat) ==
    /\ i + Len(pat) - 1 <= Len(s)
    /\ SubSeq(s, i, i + Len(pat) - 1) = pat

\* text begins with the first part's delimiter and a Content-Disposition line
\* whose name, and filename when one is expected, are the claimed escapings
\* of the arguments and read back as the arguments
C10_DispositionOf(text, name, withFile, filename) ==
    LET pre == <<"-", "-">> \o boundary \o CRLF
                \o <<"C", "o", "n", "t", "e", "n", "t", "-", "D", "i", "s",
                        "p", "o", "s", "i", "t", "i", "o", "n", ":", " ", "f",
                        "o", "r", "m", "-", "d", "a", "t", "a", ";", " ", "n",
                        "a", "m", "e", "=", "\"">>
        n == Unquote(text, Len(pre) + 1, <<>>)
        mid == <<"\"", ";", " ", "f", "i", "l", "e", "n", "a", "m", "e", "=",
                "\"">>
        f == Unquote(text, n.end + Len(mid), <<>>)
    IN /\ StartsWith(text, 1, pre)
       /\ n.ok
       /\ n.value = name
       /\ SubSeq(text, Len(pre) + 1, n.end - 1) = C10_Escaped(name)
       /\ IF withFile
          THEN /\ StartsWith(text, n.end, mid)
               /\ f.ok
               /\ f.value = filename
               /\ SubSeq(text, n.end + Len(mid), f.end - 1) = C10_Escaped(filename)
               /\ StartsWith(text, f.end, <<"\"", "\r", "\n">>)
          ELSE StartsWith(text, n.end, <<"\"", "\r", "\n">>)

\* C10: the name (and filename) WritePart and WriteReaderWithHeaders put in
\* the Content-Disposition header is the argument with every backslash
\* doubled and every double quote preceded by a backslash, and reading the
\* quoted string back gives the argument; in the header buffer after the
\* call and in the bytes of the drained stream alike.
C10_NamesAreQuoted ==
    (hist # <<>> /\ hist[1].op \in {"WritePart", "WriteReaderWithHeaders"}
        /\ hist[1].ret = "nil")
    => LET e == hist[1]
           withFile == e.op = "WriteReaderWithHeaders"
           filename == IF withFile THEN e.args[2] ELSE <<>>
       IN /\ stream.status = "none" =>
                C10_DispositionOf(bodyBuffer, e.args[1], withFile, filename)
          /\ (FirstStream /\ Drained) =>
                C10_DispositionOf(stream.out, e.args[1], withFile, filename)

\* a drained stream whose part was registered under a name and a filename
\* that hold a backslash and a double quote
C10_Witness ==
    /\ FirstStream /\ Drained
    /\ hist[1].op = "WriteReaderWithHeaders"
    /\ hist[1].args = << <<BSLASH, DQUOTE>>, <<DQUOTE, BSLASH>> >>

----------------------------------------------------------------------------
(* C11 *)

\* the step is a WriteFile call that returned an error
WriteFileFailed ==
    /\ Len(hist') = Len(hist) + 1
    /\ hist'[Len(hist')].op = "WriteFile"
    /\ hist'[Len(hist')].ret # "nil"

\* C11: a WriteFile call that fails returns the error of opening the file or
\* of statting it, leaves the header buffer, the payload source slot and the
\* declared length (hence Len()) as they were, and leaves no file handle open
\* that was not open before the call.
C11_FailedWriteFileLeavesNothing ==
    [][WriteFileFailed =>
        /\ hist'[Len(hist')].ret \in {"open error", "stat error"}
        /\ UNCHANGED <<bodyBuffer, reader, contentLength>>
        /\ StreamerLen' = StreamerLen
        /\ \A i \in DOMAIN fh' :
                fh'[i].open => (i \in DOMAIN fh /\ fh[i].open)]_vars

----------------------------------------------------------------------------
(* C12 *)

Trailer(b) == CRLF \o <<"-", "-">> \o b \o <<"-", "-">> \o CRLF

IsSuffix(s, t) ==
    Len(s) <= Len(t) /\ s = SubSeq(t, Len(t) - Len(s) + 1, Len(t))

\* the parts the calls so far have framed in the header buffer
RECURSIVE PartsFramed(_)
PartsFramed(h) ==
    IF h = <<>> THEN 0
    ELSE PartsFramed(Tail(h))
            + (IF Head(h).op = "WriteFields" THEN Len(Head(h).args) \div 2
               ELSE IF Head(h).op \in BuildOps /\ Head(h).ret = "nil" THEN 1
               ELSE 0)

\* ContentType, the trailer (what is left of it to read) and the delimiters
\* of the header buffer as built all carry Boundary()
C12_Consistent ==
    /\ ContentType = <<"m", "u", "l", "t", "i", "p", "a", "r", "t", "/", "f",
            "o", "r", "m", "-", "d", "a", "t", "a", ";", " ", "b", "o", "u",
            "n", "d", "a", "r", "y", "=">> \o boundary
    /\ IsSuffix(closeBuffer, Trailer(boundary))
    /\ stream.status = "none" =>
            Count(<<"-",
                    "-">> \o boundary \o CRLF, bodyBuffer) = PartsFramed(hist)

\* C12: in every state after New returned, over Write* calls, GetReader, reads
\* and WithBoundary options applied to the composer, ContentType is
\* "multipart/form-data; boundary=" and Boundary(), the trailer is CRLF "--"
\* Boundary() "--" CRLF and the part delimiters of the header buffer carry the
\* same token; ContentType and the trailer's content never change.
C12_BoundaryUsedConsistently ==
    /\ []C12_Consistent
    /\ [][/\ ContentType' = ContentType
          /\ IsSuffix(closeBuffer', closeBuffer)]_vars

----------------------------------------------------------------------------
(* C13 *)

\* C13: once the build phase is over, before GetReader, after it, after any
\* number of bytes read and after the drain, Len() is the length of the
\* header buffer as built plus the declared payload length plus the length of
\* the trailer, which is the number of bytes the stream yields (here: of one
\* registered source that yields its declared length).
C13_LenIsConstant ==
    FirstStream =>
        /\ StreamerLen = Len(stream.hdr) + contentLength + Len(stream.trl)
        /\ StreamerLen = stream.len
        /\ (Drained /\ Len(Overwrites) = 1 /\ CleanRegistrations) =>
                Len(stream.out) = StreamerLen

----------------------------------------------------------------------------
(* C14 *)

IsPrefix(s, t) == Len(s) <= Len(t) /\ s = SubSeq(t, 1, Len(s))

\* the bytes of the composer when the stream was obtained: the header buffer,
\* the bytes of the source in the slot, the trailer
BodyWhenObtained ==
    stream.hdr
        \o (IF stream.src = NilReader THEN <<>> ELSE SrcData(stream.src))
        \o stream.trl

\* C14: the first GetReader ends the build phase for good. Write* calls made
\* after it, before, during or after the drain, leave the bytes of the stream
\* already obtained as they were (it yields the body of the moment GetReader
\* was called and nothing else), and once a stream was drained (the trailer
\* is used up) no later stream yields a complete body ending in the trailer.
C14_NoWayBackToBuilding ==
    /\ FirstStream => IsPrefix(stream.out, BodyWhenObtained)
    /\ (FirstStream /\ Drained) => stream.out = BodyWhenObtained
    /\ (stream.id > 1 /\ stream.trl = <<>> /\ DrainEnded) =>
            ~IsSuffix(Trailer(boundary), stream.out)

----------------------------------------------------------------------------
(* C15 *)

\* the slot and the declared length are those of one and the same call
Paired == \E g \in Goroutines : reader = GoReader(g) /\ contentLength = GoSize(g)

\* C15: when the two WriteReader calls are serialized by a mutex, once both
\* have returned the payload source slot and the declared length are those of
\* the same call, and the drained stream yields Len() bytes. Without the
\* mutex the slot holds the source of either call and the length the size of
\* either call, in every combination (C15_Witness: the source of one call
\* with the length of the other, and a drain that does not yield Len() bytes).
C15_SerializedCallsPair ==
    /\ (goroutine.serialized /\ Joined) =>
            /\ Paired
            /\ (FirstStream /\ Drained) => Len(stream.out) = stream.len
    /\ (~goroutine.serialized /\ Joined) =>
            /\ reader \in {GoReader(g) : g \in Goroutines}
            /\ contentLength \in {GoSize(g) : g \in Goroutines}

\* unserialized calls: the slot holds the source of one call, the declared
\* length is the size of the other, and the drain yielded another number of
\* bytes than Len() had announced
C15_Witness ==
    /\ ~goroutine.serialized /\ Joined
    /\ ~Paired
    /\ \E g \in Goroutines, h \in Goroutines :
            g # h /\ reader = GoReader(g) /\ contentLength = GoSize(h)
    /\ FirstStream /\ Drained
    /\ Len(stream.out) # stream.len

----------------------------------------------------------------------------
(* C16 *)

\* the step is a call of WriteReaderWithHeaders
WithHeadersCalled ==
    /\ Len(hist') = Len(hist) + 1
    /\ hist'[Len(hist')].op = "WriteReaderWithHeaders"

\* C16: WriteReaderWithHeaders given headers with no "Content-Length" entry,
\* or with one that is not an int64, returns no error but panics, with the
\* payload source slot already holding the new source, the declared length
\* still the previous one and nothing written to the header buffer; given an
\* int64 length it returns nil with that length declared and the part framed.
C16_BadLengthPanics ==
    [][WithHeadersCalled =>
        LET e == hist'[Len(hist')]
            headers == e.args[3]
            bad == \/ HdrContentLength \notin DOMAIN headers
                   \/ ~headers[HdrContentLength].isInt
        IN /\ reader' = e.src
           /\ bad => /\ e.ret = "panic"
                     /\ UNCHANGED <<contentLength, bodyBuffer, lastpart>>
           /\ ~bad => /\ e.ret = "nil"
                      /\ contentLength' = headers[HdrContentLength].int
                      /\ Len(bodyBuffer') > Len(bodyBuffer)]_vars

\* after a registration of another source with its length, a call without a
\* "Content-Length" entry has panicked: the slot holds the new source, the
\* declared length is the old one
C16_Witness ==
    /\ Len(hist) = 2
    /\ hist[1].op \in RegOps /\ hist[1].ret = "nil"
    /\ hist[2].op = "WriteReaderWithHeaders" /\ hist[2].ret = "panic"
    /\ HdrContentLength \notin DOMAIN hist[2].args[3]
    /\ hist[1].src # hist[2].src
    /\ reader = hist[2].src
    /\ contentLength = hist[1].size /\ contentLength > 0
    /\ Count(<<"-", "-">> \o boundary \o CRLF, bodyBuffer) = 1

====
